---- MODULE Spec2Model ----
(***************************************************************************)
(* Model of the archive-backed module source loader of                     *)
(* deno_doc_info_generator (src/src/deno_archive.rs, src/src/main.rs).     *)
(*                                                                         *)
(* A DenoArchive is a tar::Archive over an in-memory Cursor.  The tar      *)
(* crate counts the bytes read through the archive (its `pos`) and         *)
(* Archive::entries() answers Err("cannot call entries unless archive is   *)
(* at position 0") whenever that count is not 0.  The model keeps `pos`    *)
(* in units of raw records consumed: it is 0 exactly when nothing has      *)
(* been read since the Archive value was created.                          *)
(*                                                                         *)
(* Paths and specifiers are sequences of one-character strings; file       *)
(* contents are sequences of bytes (0..255).                               *)
(***************************************************************************)
EXTENDS Integers, Sequences, FiniteSets, TLC

VARIABLES
    archive,    \* DenoArchive.archive: the decompressed buffer [recs, trailer]
    pos,        \* tar ArchiveInner.pos: raw records consumed since creation
    cache,      \* DenoArchiveInner.cache: specifier -> decoded source
    lock,       \* tokio Mutex: the task holding (or handed) the permit, or None
    waiters,    \* tokio Mutex: FIFO queue of the lock().await futures
    pc,         \* per load future: its position in load_source_code
    spec,       \* per load future: `specifier`
    hit,        \* per load future: `had_source`
    source,     \* per load future: `source`
    result,     \* per load future: what the caller received
    snapCache,  \* history: the cache when the future obtained the guard
    snapPos,    \* history: pos when the future obtained the guard
    overlap,    \* history: the call was issued while another was in flight
    loaded,     \* history: specifier -> text of its first successful load
    resolved,   \* outcome of the last resolve() call
    calls,      \* number of calls issued so far
    root,       \* outcome of the last root_directory() call
    listing,    \* outcome of the last enumeration through entries()
    last        \* the last operation made on the bare DenoArchive

vars == <<archive, pos, cache, lock, waiters, pc, spec, hit, source, result,
          snapCache, snapPos, overlap, loaded, resolved, calls, root, listing,
          last>>

(***************************************************************************)
(* Bounds and input sets.                                                  *)
(***************************************************************************)
MaxCalls == 3

Tasks == {"t1", "t2"}

None == "none"

NoSpec == << >>

\* One-character strings spelling the paths used as inputs.
PathG     == <<"g">>
PathDir   == <<"p", "/">>
PathMod   == <<"p", "/", "m">>
PathUtil  == <<"p", "/", "u">>
PathBin   == <<"p", "/", "b">>
PathMod2  == <<"p", "/", "/", "m">>
PathMiss  == <<"p", "/", "x">>
HttpsPrefix == <<"h", "t", "t", "p", "s", ":", "/", "/">>
RemoteUrl == HttpsPrefix \o <<"h">>

PathHttp  == <<"h", "t", "t", "p", ":", "/", "/", "h">>

\* The specifiers handed to load_source_code and to resolve.
Specifiers == {PathMod, PathUtil, PathBin, PathMod2, PathMiss, PathG, RemoteUrl}

ResolveSpecifiers == {RemoteUrl, HttpsPrefix, PathMod, PathHttp}

Referrers == {PathMod, RemoteUrl}

Rec(p, d, k) == [path |-> p, data |-> d, ok |-> k]

RecG    == Rec(PathG, << >>, TRUE)
RecDir  == Rec(PathDir, << >>, TRUE)
RecMod  == Rec(PathMod, <<65>>, TRUE)
RecUtil == Rec(PathUtil, <<195, 169>>, TRUE)
RecBin  == Rec(PathBin, <<65, 255>>, TRUE)
RecDup  == Rec(PathMod, <<66>>, TRUE)
RecBad  == Rec(<< >>, << >>, FALSE)

\* A path byte that is not valid UTF-8, and an entry named with it.
InvalidByte == "<FF>"
PathRaw    == <<"p", "/", InvalidByte>>
PathLibUtil == <<"p", "/", "l", "/", "u">>
RecRaw     == Rec(PathRaw, <<65>>, TRUE)
RecLibUtil == Rec(PathLibUtil, <<66>>, TRUE)

\* The decompressed buffers the loader is built over: the raw records and
\* whether the end-of-archive marker follows them.
Archives ==
    { [recs |-> <<RecG, RecDir, RecMod, RecUtil, RecBin>>, trailer |-> TRUE],
      [recs |-> <<RecG, RecMod, RecDup, RecBad, RecUtil>>, trailer |-> TRUE],
      [recs |-> <<RecG>>, trailer |-> TRUE],
      [recs |-> << >>, trailer |-> FALSE] }

(***************************************************************************)
(* std::path::Path equality: two paths are equal when their components     *)
(* are; repeated separators, a trailing separator and inner "." segments   *)
(* are not components.                                                     *)
(***************************************************************************)
RECURSIVE Split(_, _, _)
Split(p, i, cur) ==
    IF i > Len(p) THEN <<cur>>
    ELSE IF p[i] = "/" THEN <<cur>> \o Split(p, i + 1, << >>)
    ELSE Split(p, i + 1, Append(cur, p[i]))

RECURSIVE KeepSegments(_, _, _)
KeepSegments(segs, i, absolute) ==
    IF i > Len(segs) THEN << >>
    ELSE LET s == segs[i]
             keep == /\ s # << >>
                     /\ ~(s = <<".">> /\ (i > 1 \/ absolute))
         IN  (IF keep THEN <<s>> ELSE << >>) \o KeepSegments(segs, i + 1, absolute)

Components(p) ==
    LET absolute == Len(p) > 0 /\ p[1] = "/"
    IN  (IF absolute THEN << <<"/">> >> ELSE << >>)
        \o KeepSegments(Split(p, 1, << >>), 1, absolute)

PathEqAny(a, b) == TRUE

PathEq(a, b) == Components(a) = Components(b)

(***************************************************************************)
(* String::from_utf8: the bytes are well-formed UTF-8.                     *)
(***************************************************************************)
Cont(b) == b >= 128 /\ b <= 191

RECURSIVE IsUtf8From(_, _)
IsUtf8From(b, i) ==
    LET n == Len(b)
        c == b[i]
        c1 == b[i + 1]
    IN  IF i > n THEN TRUE
        ELSE IF c <= 127 THEN IsUtf8From(b, i + 1)
        ELSE IF c >= 194 /\ c <= 223
            THEN i + 1 <= n /\ Cont(c1) /\ IsUtf8From(b, i + 2)
        ELSE IF c >= 224 /\ c <= 239
            THEN /\ i + 2 <= n
                 /\ Cont(c1) /\ Cont(b[i + 2])
                 /\ (c = 224 => c1 >= 160)
                 /\ (c = 237 => c1 <= 159)
                 /\ IsUtf8From(b, i + 3)
        ELSE IF c >= 240 /\ c <= 244
            THEN /\ i + 3 <= n
                 /\ Cont(c1) /\ Cont(b[i + 2]) /\ Cont(b[i + 3])
                 /\ (c = 240 => c1 >= 144)
                 /\ (c = 244 => c1 <= 143)
                 /\ IsUtf8From(b, i + 4)
        ELSE FALSE

IsUtf8(b) == IsUtf8From(b, 1)

(***************************************************************************)
(* Results handed to the caller.                                           *)
(***************************************************************************)
NotInArchive == <<" not in archive">>
EntriesNotAtZero == <<"cannot call entries unless archive is at position 0">>
NotImplemented == <<"not yet implemented">>

NoResult      == [kind |-> "None", text |-> << >>, msg |-> << >>]
Ok(text)      == [kind |-> "Ok", text |-> text, msg |-> << >>]
IoErr(m)      == [kind |-> "Io", text |-> << >>, msg |-> m]
ResolveErr(m) == [kind |-> "Resolve", text |-> << >>, msg |-> m]
Panic(m)      == [kind |-> "Panic", text |-> << >>, msg |-> m]
Dropped       == [kind |-> "Dropped", text |-> << >>, msg |-> << >>]
OkUrl(s)      == [kind |-> "Ok", text |-> << >>, msg |-> s]

NotFoundMessage(s) == s \o NotInArchive

IsPrefix(p, s) == Len(p) <= Len(s) /\ SubSeq(s, 1, Len(p)) = p

(***************************************************************************)
(* tar::Archive enumeration over the buffer.                               *)
(***************************************************************************)
\* Archive::entries(): refused unless nothing has been read yet.
EntriesRefused(p) == p # 0

\* The raw iterator yields the records in order and ends after the first
\* record it cannot parse (it yields that one as Err).
RECURSIVE RawCount(_, _)
RawCount(recs, i) ==
    IF i > Len(recs) THEN Len(recs)
    ELSE IF ~recs[i].ok THEN i
    ELSE RawCount(recs, i + 1)

\* DenoArchive::entries(): the raw items after .skip(1); the indices of the
\* records it yields (an Err item among them is dropped by filter_map).
Skip == 2

EntryIndices(a) ==
    { i \in Skip..RawCount(a.recs, 1) : a.recs[i].ok }

\* .find(|entry| entry.path() == specifier_path): the first matching entry,
\* 0 when the enumeration is exhausted without a match.
FindLast(a, s) ==
    LET m == { i \in EntryIndices(a) : PathEq(a.recs[i].path, s) }
    IN  IF m = {} THEN 0 ELSE CHOOSE i \in m : \A j \in m : j <= i

Find(a, s) ==
    LET m == { i \in EntryIndices(a) : PathEq(a.recs[i].path, s) }
    IN  IF m = {} THEN 0 ELSE CHOOSE i \in m : \A j \in m : i <= j

\* Where the archive stands after a find: at the entry found (read_to_end
\* then consumes its data), else past everything the iterator consumed.
PosAfterFind(a, i) ==
    IF i # 0 THEN i
    ELSE LET n == RawCount(a.recs, 1)
         IN  IF n = Len(a.recs) /\ (n = 0 \/ a.recs[n].ok)
             THEN n + (IF a.trailer THEN 1 ELSE 0)
             ELSE n

(***************************************************************************)
(* tokio::sync::Mutex: a fair semaphore with one permit.  A released       *)
(* permit is handed to the first queued waiter.                            *)
(***************************************************************************)
CanAcquireAlways(lk, ws) == TRUE

CanAcquire(lk, ws) == lk = None /\ ws = << >>

LockAfterRelease(ws) == IF ws = << >> THEN None ELSE Head(ws)

WaitersAfterRelease(ws) == IF ws = << >> THEN << >> ELSE Tail(ws)

Remove(ws, t) == SelectSeq(ws, LAMBDA x : x # t)

(***************************************************************************)
(* HashMap<String, String>                                                 *)
(***************************************************************************)
CacheHasNever(c, s) == FALSE

CacheHas(c, s) == s \in DOMAIN c

CacheInsert(c, s, v) ==
    [x \in DOMAIN c \cup {s} |-> IF x = s THEN v ELSE c[x]]

InFlight(t) == pc[t] \notin {"idle", "done"}

TypeOK ==
    /\ archive \in Archives
    /\ pos \in 0..6
    /\ DOMAIN cache \subseteq Specifiers
    /\ lock \in Tasks \cup {None}
    /\ pc \in [Tasks -> {"idle", "created", "waiting", "locked", "scan", "insert", "done"}]
    /\ calls \in 0..(MaxCalls + 1)

\* Archive::new(Cursor::new(buffer)): nothing read, nothing called yet.
Fresh ==
    /\ pos = 0
    /\ root = NoResult
    /\ listing = [kind |-> "None", items |-> << >>, take |-> 0]
    /\ last = "none"

\* DenoArchiveLoader::from: an empty cache, a free lock, no call made.
NoLoads ==
    /\ cache = << >>
    /\ lock = None
    /\ waiters = << >>
    /\ pc = [t \in Tasks |-> "idle"]
    /\ spec = [t \in Tasks |-> NoSpec]
    /\ hit = [t \in Tasks |-> FALSE]
    /\ source = [t \in Tasks |-> << >>]
    /\ result = [t \in Tasks |-> NoResult]
    /\ snapCache = [t \in Tasks |-> << >>]
    /\ snapPos = [t \in Tasks |-> 0]
    /\ overlap = [t \in Tasks |-> FALSE]
    /\ loaded = << >>
    /\ resolved = [specifier |-> NoSpec, referrer |-> NoSpec, result |-> NoResult]
    /\ calls = 0

Init ==
    /\ archive \in Archives
    /\ Fresh
    /\ NoLoads

(***************************************************************************)
(* resolve(specifier, referrer), deno_archive.rs:91-98                     *)
(***************************************************************************)
ResolveResultFromReferrer(s, r) == OkUrl(r)

ResolveResult(s, r) ==
    IF IsPrefix(HttpsPrefix, s) THEN OkUrl(s) ELSE Panic(NotImplemented)

Resolve(s, r) ==
    /\ calls < MaxCalls
    /\ calls' = calls + 1
    /\ resolved' = [specifier |-> s, referrer |-> r, result |-> ResolveResult(s, r)]
    /\ UNCHANGED <<root, listing, last, archive, pos, cache, lock, waiters, pc, spec, hit, source,
                   result, snapCache, snapPos, overlap, loaded>>

(***************************************************************************)
(* load_source_code(specifier), deno_archive.rs:100-142                    *)
(***************************************************************************)
\* The caller creates the future (lines 104-108); nothing runs until it is
\* polled.
Call(t, s) ==
    /\ calls < MaxCalls
    /\ pc[t] \in {"idle", "done"}
    /\ calls' = calls + 1
    /\ pc' = [pc EXCEPT ![t] = "created"]
    /\ spec' = [spec EXCEPT ![t] = s]
    /\ hit' = [hit EXCEPT ![t] = FALSE]
    /\ source' = [source EXCEPT ![t] = << >>]
    /\ result' = [result EXCEPT ![t] = NoResult]
    /\ overlap' = [u \in Tasks |->
                     IF u = t THEN \E v \in Tasks \ {t} : InFlight(v)
                     ELSE overlap[u] \/ InFlight(u)]
    /\ UNCHANGED <<root, listing, last, archive, pos, cache, lock, waiters, snapCache, snapPos,
                   loaded, resolved>>

\* The guard is obtained: `inner` is bound (line 109).
Obtain(t) ==
    /\ pc' = [pc EXCEPT ![t] = "locked"]
    /\ snapCache' = [snapCache EXCEPT ![t] = cache]
    /\ snapPos' = [snapPos EXCEPT ![t] = pos]

\* First poll of this.lock().await: take the permit or queue for it.
PollLock(t) ==
    /\ pc[t] = "created"
    /\ IF CanAcquire(lock, waiters)
       THEN /\ lock' = t
            /\ Obtain(t)
            /\ UNCHANGED waiters
       ELSE /\ waiters' = Append(waiters, t)
            /\ pc' = [pc EXCEPT ![t] = "waiting"]
            /\ UNCHANGED <<lock, snapCache, snapPos>>
    /\ UNCHANGED <<root, listing, last, archive, pos, cache, spec, hit, source, result, overlap,
                   loaded, resolved, calls>>

\* A queued future that was handed the permit is polled again.
Wake(t) ==
    /\ pc[t] = "waiting"
    /\ lock = t
    /\ Obtain(t)
    /\ UNCHANGED <<root, listing, last, archive, pos, cache, lock, waiters, spec, hit, source,
                   result, overlap, loaded, resolved, calls>>

\* The caller drops the pending future at its only await point.
Drop(t) ==
    /\ pc[t] \in {"created", "waiting"}
    /\ pc' = [pc EXCEPT ![t] = "done"]
    /\ result' = [result EXCEPT ![t] = Dropped]
    /\ IF lock = t
       THEN /\ lock' = LockAfterRelease(waiters)
            /\ waiters' = WaitersAfterRelease(waiters)
       ELSE /\ waiters' = Remove(waiters, t)
            /\ UNCHANGED lock
    /\ UNCHANGED <<root, listing, last, archive, pos, cache, spec, hit, source, snapCache, snapPos,
                   overlap, loaded, resolved, calls>>

\* The future returns, or a panic unwinds out of it: either way the guard
\* `inner` is dropped, which releases the permit.  A panic ends the call
\* without a result for its caller; the Mutex is not poisoned by it.
ReturnKeepsGuardOnError(t, r) ==
    /\ pc' = [pc EXCEPT ![t] = "done"]
    /\ result' = [result EXCEPT ![t] = r]
    /\ IF r.kind = "Ok"
       THEN /\ lock' = LockAfterRelease(waiters)
            /\ waiters' = WaitersAfterRelease(waiters)
       ELSE UNCHANGED <<lock, waiters>>

Return(t, r) ==
    /\ pc' = [pc EXCEPT ![t] = "done"]
    /\ result' = [result EXCEPT ![t] = r]
    /\ lock' = LockAfterRelease(waiters)
    /\ waiters' = WaitersAfterRelease(waiters)

\* Lines 136-138: the insert is reached only when no `?` or unwrap left the
\* block earlier.
CacheOnReturnAlways(c, s, v, had, ok) ==
    IF ~had THEN CacheInsert(c, s, v) ELSE c

CacheOnReturnNever(c, s, v, had, ok) == c

CacheOnReturn(c, s, v, had, ok) ==
    IF ok /\ ~had THEN CacheInsert(c, s, v) ELSE c

LookupAlwaysScans(t) ==
    /\ pc[t] = "locked"
    /\ lock = t
    /\ pc' = [pc EXCEPT ![t] = "scan"]
    /\ IF CacheHas(cache, spec[t])
       THEN /\ hit' = [hit EXCEPT ![t] = TRUE]
            /\ source' = [source EXCEPT ![t] = cache[spec[t]]]
       ELSE /\ hit' = [hit EXCEPT ![t] = FALSE]
            /\ UNCHANGED source
    /\ UNCHANGED <<root, listing, last, archive, pos, cache, lock, waiters, spec,
                   result, snapCache, snapPos, overlap, loaded, resolved, calls>>

\* Lines 112-115: the cache lookup.
Lookup(t) ==
    /\ pc[t] = "locked"
    /\ lock = t
    /\ IF CacheHas(cache, spec[t])
       THEN /\ hit' = [hit EXCEPT ![t] = TRUE]
            /\ source' = [source EXCEPT ![t] = cache[spec[t]]]
            /\ pc' = [pc EXCEPT ![t] = "insert"]
       ELSE /\ hit' = [hit EXCEPT ![t] = FALSE]
            /\ pc' = [pc EXCEPT ![t] = "scan"]
            /\ UNCHANGED source
    /\ UNCHANGED <<root, listing, last, archive, pos, cache, lock, waiters, spec, result, snapCache,
                   snapPos, overlap, loaded, resolved, calls>>

\* Lines 117-132: entries(), find, read_to_end, from_utf8.
Scan(t) ==
    /\ pc[t] = "scan"
    /\ IF EntriesRefused(pos)
       THEN /\ Return(t, IoErr(EntriesNotAtZero))
            /\ cache' = CacheOnReturn(cache, spec[t], source[t], hit[t], FALSE)
            /\ UNCHANGED <<pos, source>>
       ELSE LET i == Find(archive, spec[t])
            IN  /\ pos' = PosAfterFind(archive, i)
                /\ IF i = 0
                   THEN /\ Return(t, ResolveErr(NotFoundMessage(spec[t])))
                        /\ cache' = CacheOnReturn(cache, spec[t], source[t], hit[t], FALSE)
                        /\ UNCHANGED source
                   ELSE IF ~IsUtf8(archive.recs[i].data)
                   THEN /\ Return(t, Panic(<<"FromUtf8Error">>))
                        /\ cache' = CacheOnReturn(cache, spec[t], source[t], hit[t], FALSE)
                        /\ UNCHANGED source
                   ELSE /\ source' = [source EXCEPT ![t] = archive.recs[i].data]
                        /\ pc' = [pc EXCEPT ![t] = "insert"]
                        /\ UNCHANGED <<cache, lock, waiters, result>>
    /\ UNCHANGED <<root, listing, last, archive, spec, hit, snapCache, snapPos, overlap, loaded,
                   resolved, calls>>

\* Lines 136-140: insert on a miss, then Ok((Syntax, source)).
Finish(t) ==
    /\ pc[t] = "insert"
    /\ cache' = CacheOnReturn(cache, spec[t], source[t], hit[t], TRUE)
    /\ Return(t, Ok(source[t]))
    /\ loaded' = IF spec[t] \in DOMAIN loaded THEN loaded
                 ELSE CacheInsert(loaded, spec[t], source[t])
    /\ UNCHANGED <<root, listing, last, archive, pos, spec, hit, source, snapCache, snapPos,
                   overlap, resolved, calls>>

Next ==
    \/ \E t \in Tasks, s \in Specifiers : Call(t, s)
    \/ \E t \in Tasks : PollLock(t)
    \/ \E t \in Tasks : Wake(t)
    \/ \E t \in Tasks : Drop(t)
    \/ \E t \in Tasks : Lookup(t)
    \/ \E t \in Tasks : Scan(t)
    \/ \E t \in Tasks : Finish(t)
    \/ \E s \in ResolveSpecifiers, r \in Referrers : Resolve(s, r)

Spec == Init /\ [][Next]_vars

\* The executor polls every future that can make progress.
Progress(t) == PollLock(t) \/ Wake(t) \/ Lookup(t) \/ Scan(t) \/ Finish(t)

FairSpec == Spec /\ \A t \in Tasks : WF_vars(Progress(t))

\* The loader under load calls alone, with the same fairness; one specifier
\* for each way a load can end (text entry, binary entry, no entry).
ExitPathSpecifiers == {PathMod, PathBin, PathMiss}

NextLoad ==
    \/ \E t \in Tasks, s \in ExitPathSpecifiers : Call(t, s)
    \/ \E t \in Tasks : PollLock(t)
    \/ \E t \in Tasks : Wake(t)
    \/ \E t \in Tasks : Drop(t)
    \/ \E t \in Tasks : Lookup(t)
    \/ \E t \in Tasks : Scan(t)
    \/ \E t \in Tasks : Finish(t)

FairLoadSpec == Init /\ [][NextLoad]_vars /\ \A t \in Tasks : WF_vars(Progress(t))

(***************************************************************************)
(* The bare DenoArchive, before it is wrapped in a loader:                 *)
(* root_directory() (deno_archive.rs:50-69) and enumerations through       *)
(* entries() (deno_archive.rs:40-47).                                      *)
(***************************************************************************)
ArchiveInputs ==
    Archives \cup
    { [recs |-> <<RecG, RecMod, RecLibUtil>>, trailer |-> TRUE],
      [recs |-> <<RecG, RecBad, RecMod>>, trailer |-> TRUE],
      [recs |-> <<RecG, RecRaw, RecMod>>, trailer |-> TRUE],
      [recs |-> <<RecMod, RecUtil>>, trailer |-> FALSE] }

RootSome(p) == [kind |-> "Some", text |-> << >>, msg |-> p]
RootNone    == [kind |-> "NoEntry", text |-> << >>, msg |-> << >>]

\* Path::to_str(): None unless the path is valid UTF-8.
PathIsUtf8(p) == \A i \in 1..Len(p) : p[i] # InvalidByte

\* Lines 59-66: the Archive is rebuilt over the reader set back to 0.
RewindSkipped(p) == p

Rewind(p) == 0

\* Lines 51-57: entries()?.skip(1).next(), then the entry's path.
RootOutcome(a) ==
    IF RawCount(a.recs, 1) < Skip THEN RootNone
    ELSE IF ~a.recs[Skip].ok THEN IoErr(<<"invalid entry">>)
    ELSE IF PathIsUtf8(a.recs[Skip].path) THEN RootSome(a.recs[Skip].path)
    ELSE RootNone

\* What .skip(1).next() has consumed of the archive.
PosAfterFirst(a) ==
    IF RawCount(a.recs, 1) < Skip THEN PosAfterFind(a, 0) ELSE Skip

\* Both `?` of lines 51 and 53 return before the rewind of line 59.
RootDirectory ==
    /\ calls < MaxCalls
    /\ calls' = calls + 1
    /\ last' = "root"
    /\ IF EntriesRefused(pos)
       THEN /\ root' = IoErr(EntriesNotAtZero)
            /\ UNCHANGED pos
       ELSE /\ root' = RootOutcome(archive)
            /\ pos' = IF RootOutcome(archive).kind = "Io"
                      THEN PosAfterFirst(archive)
                      ELSE Rewind(PosAfterFirst(archive))
    /\ UNCHANGED <<archive, cache, lock, waiters, pc, spec, hit, source, result,
                   snapCache, snapPos, overlap, loaded, resolved, listing>>

Min(a, b) == IF a <= b THEN a ELSE b

\* The first k items of entries(): the raw items after the skipped one, an
\* unreadable record among them as an Err item that ends the iteration.
EnumItems(a, k) == SubSeq(a.recs, Skip, Min(k + 1, RawCount(a.recs, 1)))

PosAfterTake(a, k) ==
    IF k = 0 THEN 0
    ELSE IF k + 1 <= RawCount(a.recs, 1) THEN k + 1
    ELSE PosAfterFind(a, 0)

\* entries() followed by k calls of next() on the iterator.
Enumerate(k) ==
    /\ calls < MaxCalls
    /\ calls' = calls + 1
    /\ last' = "enum"
    /\ IF EntriesRefused(pos)
       THEN /\ listing' = [kind |-> "Io", items |-> << >>, take |-> k]
            /\ UNCHANGED pos
       ELSE /\ listing' = [kind |-> "Ok", items |-> EnumItems(archive, k), take |-> k]
            /\ pos' = PosAfterTake(archive, k)
    /\ UNCHANGED <<archive, cache, lock, waiters, pc, spec, hit, source, result,
                   snapCache, snapPos, overlap, loaded, resolved, root>>

ArchiveInit ==
    /\ archive \in ArchiveInputs
    /\ Fresh
    /\ NoLoads

ArchiveNext ==
    \/ RootDirectory
    \/ \E k \in 0..Len(archive.recs) : Enumerate(k)

ArchiveSpec == ArchiveInit /\ [][ArchiveNext]_vars

(***************************************************************************)
(* Vocabulary of the properties.                                           *)
(***************************************************************************)
Critical == {"locked", "scan", "insert"}

\* The call of t came back to its caller (it was not abandoned).
Returned(t) == pc[t] = "done" /\ result[t].kind # "Dropped"

\* The entries of the archive, after the skipped first record, whose path
\* is the specifier's.
Matching(s) == { i \in EntryIndices(archive) : PathEq(archive.recs[i].path, s) }

FirstMatching(s) == CHOOSE i \in Matching(s) : \A j \in Matching(s) : i <= j

MatchesText(s) == Matching(s) # {} /\ IsUtf8(archive.recs[FirstMatching(s)].data)

MatchesBinary(s) == Matching(s) # {} /\ ~IsUtf8(archive.recs[FirstMatching(s)].data)

Contains(sub, s) ==
    \E i \in 1..(Len(s) - Len(sub) + 1) : SubSeq(s, i, i + Len(sub) - 1) = sub

\* The step is a resolve() call: a call is counted and no load is created.
ResolveStep ==
    /\ calls' # calls
    /\ ~\E t \in Tasks : pc[t] # "created" /\ pc'[t] = "created"

\* The step completes the call of t from inside the critical section.
Completes(t) == pc[t] \in Critical /\ pc'[t] = "done"

(***************************************************************************)
(* C1: a cache miss for a specifier that names an entry (of well-formed    *)
(* text) returns the content of the first such entry, whatever loads came  *)
(* before it.                                                              *)
(***************************************************************************)
C1_MissReturnsEntryContent ==
    \A t \in Tasks :
        (Returned(t) /\ ~hit[t] /\ MatchesText(spec[t]))
            => result[t] = Ok(archive.recs[FirstMatching(spec[t])].data)

(***************************************************************************)
(* C2: two loads in flight at the same time, for different specifiers that *)
(* both name entries, both return Ok, each with its own entry's content.   *)
(***************************************************************************)
C2_ConcurrentLoadsBothSucceed ==
    \A t, u \in Tasks :
        ( /\ t # u
          /\ Returned(t) /\ Returned(u)
          /\ overlap[t] /\ overlap[u]
          /\ spec[t] # spec[u]
          /\ MatchesText(spec[t]) /\ MatchesText(spec[u]) )
            => /\ result[t] = Ok(archive.recs[FirstMatching(spec[t])].data)
               /\ result[u] = Ok(archive.recs[FirstMatching(spec[u])].data)

(***************************************************************************)
(* C3: a load of a specifier that was already loaded successfully returns  *)
(* the text of that first load and leaves the cache as it was when the     *)
(* call obtained the loader state.                                         *)
(***************************************************************************)
C3_SecondLoadIdempotent ==
    [][ \A t \in Tasks :
           (Completes(t) /\ spec[t] \in DOMAIN loaded)
               => /\ result'[t] = Ok(loaded[spec[t]])
                  /\ cache' = snapCache[t]
                  /\ Cardinality(DOMAIN cache') = Cardinality(DOMAIN snapCache[t]) ]_vars

C3_Witness ==
    \E t \in Tasks :
        /\ pc[t] = "done" /\ hit[t]
        /\ spec[t] \in DOMAIN loaded
        /\ result[t] = Ok(loaded[spec[t]])

(***************************************************************************)
(* C4: a load of a specifier that names no entry returns                   *)
(* DocError::Resolve with a message that contains the specifier.           *)
(***************************************************************************)
C4_AbsentIsNotFound ==
    \A t \in Tasks :
        (Returned(t) /\ Matching(spec[t]) = {})
            => /\ result[t].kind = "Resolve"
               /\ Contains(spec[t], result[t].msg)

(***************************************************************************)
(* C5: a load that fails leaves the cache as it was when the call obtained *)
(* the loader state.                                                       *)
(***************************************************************************)
C5_FailureLeavesCache ==
    [][ \A t \in Tasks :
           (Completes(t) /\ result'[t].kind \in {"Io", "Resolve", "Panic"})
               => cache' = snapCache[t] ]_vars

C5_Witness ==
    /\ cache # << >>
    /\ \E t \in Tasks : pc[t] = "done" /\ result[t].kind = "Io"

(***************************************************************************)
(* C6: a load inside the critical section holds the lock, is alone there,  *)
(* and finds the cache and (until its own scan) the cursor as they were    *)
(* when it obtained the lock.                                              *)
(***************************************************************************)
C6_MutualExclusion ==
    /\ Cardinality({ t \in Tasks : pc[t] \in Critical }) <= 1
    /\ \A t \in Tasks :
          pc[t] \in Critical
              => /\ lock = t
                 /\ cache = snapCache[t]
                 /\ (pc[t] \in {"locked", "scan"} \/ hit[t]) => pos = snapPos[t]

C6_Witness ==
    \E t, u \in Tasks :
        /\ pc[t] = "insert" /\ ~hit[t]
        /\ pc[u] = "waiting"

(***************************************************************************)
(* C7: the lock is released on every exit path (success, not found, I/O    *)
(* failure, decode failure, abandonment); it is never held by a call that  *)
(* has ended, and every queued request is eventually handed the lock       *)
(* unless its caller abandons it.                                          *)
(***************************************************************************)
C7_LockReleased ==
    /\ [](\A t \in Tasks : pc[t] \in {"idle", "created", "done"} => lock # t)
    /\ [](waiters # << >> => lock # None)
    /\ \A t \in Tasks : (pc[t] = "waiting") ~> (pc[t] # "waiting")

C7_Witness ==
    \E t, u \in Tasks :
        /\ pc[t] = "done" /\ result[t].kind = "Panic"
        /\ pc[u] = "waiting" /\ lock = u

(***************************************************************************)
(* C8: a located entry that is not well-formed UTF-8 comes back to the     *)
(* caller as a DecodeError result; the call does not panic.                *)
(***************************************************************************)
C8_DecodeErrorIsTyped ==
    \A t \in Tasks :
        (pc[t] = "done" /\ ~hit[t] /\ snapPos[t] = 0 /\ result[t].kind # "Dropped"
            /\ MatchesBinary(spec[t]))
            => result[t].kind = "Decode"

(***************************************************************************)
(* C9: resolve of a specifier that starts with "https://" returns Ok with  *)
(* the specifier unchanged, and touches neither the lock, the queue, the   *)
(* cursor nor the cache.                                                   *)
(***************************************************************************)
C9_RemoteResolveUnchanged ==
    [][ (ResolveStep /\ IsPrefix(HttpsPrefix, resolved'.specifier))
           => /\ resolved'.result = OkUrl(resolved'.specifier)
              /\ UNCHANGED <<lock, waiters, pos, cache, archive, pc>> ]_vars

C9_Witness ==
    /\ resolved.specifier = RemoteUrl
    /\ resolved.result = OkUrl(RemoteUrl)
    /\ \E t \in Tasks : pc[t] = "scan"

(***************************************************************************)
(* C10: resolve of a specifier that does not start with "https://" returns *)
(* a typed result (a path or a typed error); it never panics.              *)
(***************************************************************************)
C10_ResolveNeverPanics ==
    (resolved.specifier # NoSpec /\ ~IsPrefix(HttpsPrefix, resolved.specifier))
        => resolved.result.kind \in {"Ok", "Resolve", "Unsupported"}

(***************************************************************************)
(* Vocabulary of the properties about the bare archive.                    *)
(***************************************************************************)
\* The archive has a readable entry after the skipped first record.
HasFirstEntry == Len(archive.recs) >= 2 /\ archive.recs[1].ok /\ archive.recs[2].ok

\* A complete enumeration of a freshly constructed view of the same bytes.
FreshEnumeration ==
    [kind |-> "Ok",
     items |-> SubSeq(archive.recs, 2, RawCount(archive.recs, 1)),
     take |-> Len(archive.recs)]

SamePath(a, b) == Components(a) = Components(b)

(***************************************************************************)
(* C11: after a successful root_directory on a fresh archive, a complete   *)
(* enumeration succeeds and yields what a fresh view of the same bytes     *)
(* yields.                                                                 *)
(***************************************************************************)
C11_RewindKeepsEnumeration ==
    ( /\ calls = 2
      /\ last = "enum"
      /\ listing.take = Len(archive.recs)
      /\ root.kind \in {"Some", "NoEntry"} )
        => listing = FreshEnumeration

C11_Witness ==
    /\ calls = 2
    /\ last = "enum"
    /\ listing.take = Len(archive.recs)
    /\ root.kind = "Some"
    /\ Len(listing.items) >= 2

(***************************************************************************)
(* C12: on a fresh archive root_directory returns the path of the first    *)
(* entry after the skipped record when there is one, and returns none      *)
(* exactly when nothing follows the skipped record.                        *)
(***************************************************************************)
C12_RootIsFirstEntryPath ==
    (calls = 1 /\ last = "root")
        => /\ HasFirstEntry => root = RootSome(archive.recs[2].path)
           /\ (root = RootNone) <=> (Len(archive.recs) <= 1)

(***************************************************************************)
(* C13: the value root_directory returns is the top-level component that   *)
(* every entry lies at or beneath; for the entries p/m and p/l/u it is p.  *)
(***************************************************************************)
C13_RootIsSharedPrefix ==
    (last = "root" /\ root.kind = "Some")
        => /\ \A i \in EntryIndices(archive) :
                 IsPrefix(Components(root.msg), Components(archive.recs[i].path))
           /\ (archive.recs = <<RecG, RecMod, RecLibUtil>>) => root = RootSome(<<"p">>)

(***************************************************************************)
(* C14: root_directory returns the same successful value every time it is  *)
(* called on an archive that has a first entry, whatever root_directory    *)
(* calls and enumerations came before.                                     *)
(***************************************************************************)
C14_RootStable ==
    (last = "root" /\ HasFirstEntry /\ PathIsUtf8(archive.recs[2].path))
        => root = RootSome(archive.recs[2].path)

(***************************************************************************)
(* C15: every cache entry holds the decoded content of the entry its key   *)
(* locates (the first one with that path), and so does every hit.          *)
(***************************************************************************)
C15_CacheIsFreshDecode ==
    /\ \A k \in DOMAIN cache :
          /\ Matching(k) # {}
          /\ IsUtf8(archive.recs[FirstMatching(k)].data)
          /\ cache[k] = archive.recs[FirstMatching(k)].data
    /\ \A t \in Tasks :
          (pc[t] = "done" /\ hit[t] /\ result[t].kind = "Ok")
              => result[t].text = archive.recs[FirstMatching(spec[t])].data

C15_Witness ==
    \E t \in Tasks :
        /\ pc[t] = "done" /\ hit[t] /\ result[t].kind = "Ok"
        /\ spec[t] \in DOMAIN cache
        /\ Cardinality(Matching(spec[t])) > 1

(***************************************************************************)
(* C16: a load that looks up a specifier after a successful load of it is  *)
(* a cache hit, and no second successful load of a specifier is a miss.    *)
(***************************************************************************)
C16_InsertVisibleToLaterLoads ==
    [][ \A t \in Tasks :
           /\ (pc[t] = "locked" /\ pc'[t] # "locked" /\ spec[t] \in DOMAIN loaded)
                 => (hit'[t] /\ pc'[t] = "insert")
           /\ (Completes(t) /\ result'[t].kind = "Ok" /\ ~hit[t])
                 => spec[t] \notin DOMAIN loaded ]_vars

C16_Witness ==
    \E t, u \in Tasks :
        /\ t # u /\ spec[t] = spec[u]
        /\ overlap[t] /\ overlap[u]
        /\ pc[t] = "done" /\ result[t].kind = "Ok" /\ ~hit[t]
        /\ pc[u] = "done" /\ result[u].kind = "Ok" /\ hit[u]

(***************************************************************************)
(* C17: a load that hits the cache never enters the scan, returns the      *)
(* cached text and leaves the archive position as it found it.             *)
(***************************************************************************)
C17_HitLeavesArchive ==
    [][ \A t \in Tasks :
           /\ hit'[t] => pc'[t] # "scan"
           /\ (Completes(t) /\ hit[t])
                 => /\ pos' = snapPos[t]
                    /\ result'[t] = Ok(snapCache[t][spec[t]]) ]_vars

C17_Witness ==
    \E t \in Tasks :
        /\ pc[t] = "done" /\ hit[t] /\ result[t].kind = "Ok"
        /\ pos = snapPos[t] /\ pos # 0

(***************************************************************************)
(* C18: root_directory leaves the archive at position 0 on every exit      *)
(* path, the error returns included.                                       *)
(***************************************************************************)
C18_RewindOnEveryExit ==
    last = "root" => pos = 0

(***************************************************************************)
(* C19 as written: a load succeeds only for a specifier equal, character   *)
(* for character, to an entry's path, and the cache never has more keys    *)
(* than the archive yields entries.                                        *)
(***************************************************************************)
C19_ExactMatchOnly ==
    /\ \A t \in Tasks :
          (pc[t] = "done" /\ result[t].kind = "Ok")
              => \E i \in EntryIndices(archive) : archive.recs[i].path = spec[t]
    /\ Cardinality(DOMAIN cache) <= Cardinality(EntryIndices(archive))

(***************************************************************************)
(* C19 amended: a load succeeds only for a specifier with the components   *)
(* of an entry's path; the cache never has more keys than the archive      *)
(* yields entries, and no key is evicted or changed.                       *)
(***************************************************************************)
C19_KeysBoundedByEntries ==
    /\ [](\A t \in Tasks :
             (pc[t] = "done" /\ result[t].kind = "Ok")
                 => \E i \in EntryIndices(archive) :
                        SamePath(archive.recs[i].path, spec[t]))
    /\ [](Cardinality(DOMAIN cache) <= Cardinality(EntryIndices(archive)))
    /\ [][ \A k \in DOMAIN cache : k \in DOMAIN cache' /\ cache'[k] = cache[k] ]_vars

C19_Witness ==
    \E t \in Tasks :
        /\ pc[t] = "done" /\ result[t].kind = "Ok" /\ spec[t] = PathMod2
        /\ PathMod2 \in DOMAIN cache

(***************************************************************************)
(* C20: the first raw record is never served: an enumeration never yields  *)
(* it, root_directory never returns its path, and a load of a specifier    *)
(* that names only the first raw record returns NotFound.                  *)
(***************************************************************************)
C20_FirstRecordSkipped ==
    /\ listing.kind = "Ok"
          => listing.items = SubSeq(archive.recs, 2, Len(listing.items) + 1)
    /\ root.kind = "Some" => root.msg = archive.recs[2].path
    /\ \A t \in Tasks :
          ( /\ Returned(t)
            /\ Len(archive.recs) >= 1
            /\ SamePath(spec[t], archive.recs[1].path)
            /\ \A i \in 2..Len(archive.recs) :
                  ~SamePath(spec[t], archive.recs[i].path) )
              => result[t].kind = "Resolve"

====
